---- MODULE Spec2Model ----
(***************************************************************************)
(* Model of store/lru/doubly_linked_list.go: the doubly-linked list that   *)
(* orders the entries of the LRU cache.  Nodes are addressed by small      *)
(* integers (one per allocation), pointers are functions Prev and Next.    *)
(* Every caller goroutine is a thread with a program counter; a step is a  *)
(* lock acquisition, a critical-section fragment, or an unlocked read.     *)
(***************************************************************************)
EXTENDS Integers, Sequences, FiniteSets, TLC

\* ---------------------------------------------------------------- bounds
MaxNodes == 4
NumThreads == 2
\* Inserts in a run whose callers race on removals
MaxRacing == 2

\* ---------------------------------------------------------------- values
Nil == 0
headNode == MaxNodes + 1
tailNode == MaxNodes + 2
Real == 1..MaxNodes
Nodes == Real \cup {headNode, tailNode}
Threads == 1..NumThreads
Keys == 1..MaxNodes
NoKey == 0
NoThread == 0

VARIABLES
  Prev,          \* Node.Prev of every node
  Next,          \* Node.Next of every node
  Key,           \* Node.Key of every node
  Size,          \* List.Size
  Mux,           \* List.Mux: the thread that holds it, or NoThread
  nalloc,        \* number of nodes allocated by Insert so far
  pc,            \* position of every caller
  op,            \* the exported function a caller is in (or was last in)
  node,          \* RemoveNode's parameter
  key,           \* Insert's parameter
  newNode,       \* Insert's local
  nodeToRemove,  \* RemoveLast's local
  ret,           \* returned *Node
  err,           \* returned error is non-nil
  insLog,        \* history: keys passed to Insert, in call order
  insertsOnly,   \* history: no function other than Insert was called yet
  pre,           \* history: the list as the most recent call found it
  prior,         \* history: who made the most recent call and whether it
                 \* began with no call in progress; and the call before
                 \* it, if that one ran alone and had returned
  script,        \* history: how many calls of Scenario the calls made so
                 \* far are, one after another (OffScript: they are not)
  lin,           \* history: configurations of the sequential list that
                 \* some linearization of the calls so far can be in
  removed,       \* history: elements RemoveLast or RemoveNode returned
  twice,         \* history: some element was returned by two removals
  stale          \* history: GetLastNode returned an element that a
                 \* removal had returned before

list == <<Prev, Next, Key, Size, Mux, nalloc>>
locals == <<pc, op, node, key, newNode, nodeToRemove, ret, err>>
hist == <<insLog, insertsOnly, pre, prior, script, lin, removed, twice,
          stale>>
vars == <<Prev, Next, Key, Size, Mux, nalloc, pc, op, node, key, newNode,
          nodeToRemove, ret, err, insLog, insertsOnly, pre, prior,
          script, lin, removed, twice, stale>>

\* ------------------------------------------------------------ chain walks
RECURSIVE WalkNext(_, _, _)
WalkNext(nx, n, fuel) ==
  IF n \notin Real \/ fuel = 0 THEN <<>>
  ELSE <<n>> \o WalkNext(nx, nx[n], fuel - 1)

RECURSIVE EndNext(_, _, _)
EndNext(nx, n, fuel) ==
  IF n \notin Real \/ fuel = 0 THEN n ELSE EndNext(nx, nx[n], fuel - 1)

\* the real elements met from Head by Next, most recently used first
Chain == WalkNext(Next, Next[headNode], MaxNodes + 1)
\* the real elements met from Tail by Prev, least recently used first
BackChain == WalkNext(Prev, Prev[tailNode], MaxNodes + 1)
\* where the walks stop
ChainEnd == EndNext(Next, Next[headNode], MaxNodes + 1)
BackChainEnd == EndNext(Prev, Prev[tailNode], MaxNodes + 1)

RECURSIVE Reverse(_)
Reverse(s) == IF s = <<>> THEN <<>> ELSE Reverse(Tail(s)) \o <<Head(s)>>

Range(s) == {s[i] : i \in 1..Len(s)}
Linked == Range(Chain)

\* ------------------------------------------- the sequential list (history)
IdleSt == [s |-> "idle", op |-> "none", arg |-> Nil, r |-> Nil, e |-> FALSE]
Done(o, a, r, e) == [s |-> "lin", op |-> o, arg |-> a, r |-> r, e |-> e]

RemoveFrom(s, x) == SelectSeq(s, LAMBDA y : y # x)
Front(s) == SubSeq(s, 1, Len(s) - 1)

\* Can the pending call of t take effect in configuration c?  RemoveNode of
\* an element that is not linked has no sequential meaning (the contract
\* leaves it undefined) unless the list is empty.
CanTakeEffect(c, t) ==
  /\ c.st[t].s = "pend"
  /\ c.st[t].op = "RemoveNode" =>
        (c.lst = <<>> \/ c.st[t].arg \in Range(c.lst))

\* The configuration after the pending call of t takes effect in one step.
TakeEffect(c, t) ==
  LET o == c.st[t].op
      a == c.st[t].arg
  IN  CASE o = "Insert" ->
             [lst |-> <<c.n + 1>> \o c.lst, n |-> c.n + 1,
              st |-> [c.st EXCEPT ![t] = Done(o, a, c.n + 1, FALSE)]]
        [] o = "RemoveLast" ->
             IF c.lst = <<>>
             THEN [c EXCEPT !.st[t] = Done(o, a, Nil, TRUE)]
             ELSE [c EXCEPT !.lst = Front(c.lst),
                            !.st[t] = Done(o, a, c.lst[Len(c.lst)], FALSE)]
        [] o = "RemoveNode" ->
             IF c.lst = <<>>
             THEN [c EXCEPT !.st[t] = Done(o, a, Nil, TRUE)]
             ELSE [c EXCEPT !.lst = RemoveFrom(c.lst, a),
                            !.st[t] = Done(o, a, a, FALSE)]
        [] OTHER ->
             IF c.lst = <<>>
             THEN [c EXCEPT !.st[t] = Done(o, a, Nil, TRUE)]
             ELSE [c EXCEPT !.st[t] = Done(o, a, c.lst[Len(c.lst)], FALSE)]

RECURSIVE Close(_)
Close(S) ==
  LET S2 == S \cup UNION {{TakeEffect(c, t) :
                               t \in {u \in Threads : CanTakeEffect(c, u)}} :
                             c \in S}
  IN  IF S2 = S THEN S ELSE Close(S2)

\* history updates at a call and at a return
CallLin(t, o, a) ==
  Close({[c EXCEPT !.st[t] = [s |-> "pend", op |-> o, arg |-> a,
                              r |-> Nil, e |-> FALSE]] : c \in lin})
RetLin(t, r, e) ==
  {[c EXCEPT !.st[t] = IdleSt] :
     c \in {d \in lin : d.st[t].s = "lin" /\ d.st[t].r = r /\ d.st[t].e = e}}

\* what a call finds when it begins; p and n are the neighbours of e
Snapshot(e) ==
  [chain |-> Chain, size |-> Size,
   p |-> IF e = Nil THEN Nil ELSE Prev[e],
   n |-> IF e = Nil THEN Nil ELSE Next[e]]

\* InitList, Insert("a"), Insert("b"), GetLastNode, RemoveLast,
\* RemoveNode(elementB), GetLastNode
Scenario == <<"Insert", "Insert", "GetLastNode", "RemoveLast", "RemoveNode",
              "GetLastNode">>
OffScript == Len(Scenario) + 1

\* the script position after a call of o with element e, made while the
\* callers are at rest or not (quiet)
Follow(o, e, quiet) ==
  IF /\ script < Len(Scenario)
     /\ quiet
     /\ o = Scenario[script + 1]
     /\ o = "RemoveNode" => (e \in Real /\ Key[e] = insLog[2])
  THEN script + 1
  ELSE OffScript

\* no call before the most recent one (or it overlapped another call)
NoPrior(t, quiet) ==
  [by |-> t, alone |-> quiet, op |-> "none", node |-> Nil, ret |-> Nil,
   err |-> FALSE, chain |-> <<>>, size |-> 0]

\* caller t begins a call: the call before it is the most recent one so far
Previous(t, quiet) ==
  IF quiet /\ prior.alone /\ prior.by # NoThread
  THEN [by |-> t, alone |-> TRUE, op |-> op[prior.by],
        node |-> node[prior.by], ret |-> ret[prior.by],
        err |-> err[prior.by],
        chain |-> pre.chain, size |-> pre.size]
  ELSE NoPrior(t, quiet)

\* ------------------------------------------------------------------ Init
\* InitList: two sentinels linked to each other, Size 0; no caller yet.
InitList ==
  /\ Prev = [n \in Nodes |-> IF n = tailNode THEN headNode ELSE Nil]
  /\ Next = [n \in Nodes |-> IF n = headNode THEN tailNode ELSE Nil]
  /\ Key = [n \in Nodes |-> NoKey]
  /\ Size = 0
  /\ Mux = NoThread
  /\ nalloc = 0

Init ==
  /\ InitList
  /\ pc = [t \in Threads |-> "idle"]
  /\ op = [t \in Threads |-> "none"]
  /\ node = [t \in Threads |-> Nil]
  /\ key = [t \in Threads |-> NoKey]
  /\ newNode = [t \in Threads |-> Nil]
  /\ nodeToRemove = [t \in Threads |-> Nil]
  /\ ret = [t \in Threads |-> Nil]
  /\ err = [t \in Threads |-> FALSE]
  /\ insLog = <<>>
  /\ insertsOnly = TRUE
  /\ pre = Snapshot(Nil)
  /\ script = 0
  /\ prior = NoPrior(NoThread, TRUE)
  /\ lin = {[lst |-> <<>>, n |-> 0, st |-> [t \in Threads |-> IdleSt]]}
  /\ removed = {}
  /\ twice = FALSE
  /\ stale = FALSE

\* ------------------------------------------------------- common fragments
Running == \A u \in Threads : pc[u] # "panic"
AtRest(t) == pc[t] \in {"idle", "done"}

\* a caller enters an exported function
Call(t, o, e, k) ==
  /\ Running
  /\ AtRest(t)
  /\ op' = [op EXCEPT ![t] = o]
  /\ node' = [node EXCEPT ![t] = e]
  /\ key' = [key EXCEPT ![t] = k]
  /\ ret' = [ret EXCEPT ![t] = Nil]
  /\ err' = [err EXCEPT ![t] = FALSE]
  /\ pre' = Snapshot(e)
  /\ prior' = Previous(t, \A u \in Threads : AtRest(u))
  /\ script' = Follow(o, e, \A u \in Threads : AtRest(u))
  /\ insertsOnly' = (insertsOnly /\ o = "Insert")
  /\ lin' = CallLin(t, o, e)
  /\ UNCHANGED <<list, newNode, nodeToRemove, removed, twice, stale>>

\* (mutant) Lock that does not wait for the holder
AcquireNoWait(t) == Mux' = t

\* ll.Mux.Lock(): blocks until the mutex is free
Acquire(t) == Mux = NoThread /\ Mux' = t

\* return r, e to the caller (the locals of the call die)
\* the element a removal hands to its caller
Removal(t, r) ==
  IF op[t] \in {"RemoveLast", "RemoveNode"} /\ r \in Real THEN {r} ELSE {}

Return(t, r, e) ==
  /\ pc' = [pc EXCEPT ![t] = "done"]
  /\ ret' = [ret EXCEPT ![t] = r]
  /\ err' = [err EXCEPT ![t] = e]
  /\ newNode' = [newNode EXCEPT ![t] = Nil]
  /\ nodeToRemove' = [nodeToRemove EXCEPT ![t] = Nil]
  /\ lin' = RetLin(t, r, e)
  /\ removed' = removed \cup Removal(t, r)
  /\ twice' = (twice \/ Removal(t, r) \cap removed # {})
  /\ stale' = (stale \/ (op[t] = "GetLastNode" /\ r \in removed))
  /\ UNCHANGED <<op, node, key, insLog, insertsOnly, pre, prior, script>>

\* a nil pointer dereference: the goroutine panics, deferred unlocks run,
\* and the program stops
Panic(t) ==
  /\ pc' = [pc EXCEPT ![t] = "panic"]
  /\ Mux' = NoThread
  /\ UNCHANGED <<Prev, Next, Key, Size, nalloc, op, node, key, newNode,
                 nodeToRemove, ret, err, hist>>

\* ---------------------------------------------------------------- Insert
InsertPcs == {"ins_lock", "ins_new", "ins_head", "ins_back", "ins_size",
              "ins_ret"}
\* Inserts that have not allocated their node yet
PendingInserts == Cardinality({u \in Threads : pc[u] \in {"ins_lock", "ins_new"}})

InsertCall(t, k) ==
  /\ nalloc + PendingInserts < MaxNodes
  /\ Call(t, "Insert", Nil, k)
  /\ pc' = [pc EXCEPT ![t] = "ins_lock"]
  /\ insLog' = Append(insLog, k)

InsLock(t) ==
  /\ Running
  /\ pc[t] = "ins_lock"
  /\ Acquire(t)
  /\ pc' = [pc EXCEPT ![t] = "ins_new"]
  /\ UNCHANGED <<Prev, Next, Key, Size, nalloc, op, node, key, newNode,
                 nodeToRemove, ret, err, hist>>

\* (mutant) newNode.Next = ll.Tail
InsNewBeforeTail(t) ==
  LET n == nalloc + 1
  IN  /\ Running
      /\ pc[t] = "ins_new"
      /\ nalloc' = n
      /\ Key' = [Key EXCEPT ![n] = key[t]]
      /\ newNode' = [newNode EXCEPT ![t] = n]
      /\ Prev' = [Prev EXCEPT ![n] = headNode]
      /\ Next' = [Next EXCEPT ![n] = tailNode]
      /\ pc' = [pc EXCEPT ![t] = "ins_head"]
      /\ UNCHANGED <<Size, Mux, op, node, key, nodeToRemove, ret, err, hist>>

\* lines 126-138: allocate newNode, newNode.Prev = Head,
\* newNode.Next = Head.Next
InsNew(t) ==
  LET n == nalloc + 1
  IN  /\ Running
      /\ pc[t] = "ins_new"
      /\ nalloc' = n
      /\ Key' = [Key EXCEPT ![n] = key[t]]
      /\ newNode' = [newNode EXCEPT ![t] = n]
      /\ Prev' = [Prev EXCEPT ![n] = headNode]
      /\ Next' = [Next EXCEPT ![n] = Next[headNode]]
      /\ pc' = [pc EXCEPT ![t] = "ins_head"]
      /\ UNCHANGED <<Size, Mux, op, node, key, nodeToRemove, ret, err, hist>>

\* line 139: ll.Head.Next = newNode
InsHead(t) ==
  /\ Running
  /\ pc[t] = "ins_head"
  /\ Next' = [Next EXCEPT ![headNode] = newNode[t]]
  /\ pc' = [pc EXCEPT ![t] = "ins_back"]
  /\ UNCHANGED <<Prev, Key, Size, Mux, nalloc, op, node, key, newNode,
                 nodeToRemove, ret, err, hist>>

\* (mutant) line 140 left out: the old first node keeps its Prev
InsBackForgotten(t) ==
  /\ Running
  /\ pc[t] = "ins_back"
  /\ pc' = [pc EXCEPT ![t] = "ins_size"]
  /\ UNCHANGED <<Prev, Next, Key, Size, Mux, nalloc, op, node, key, newNode,
                 nodeToRemove, ret, err, hist>>

\* line 140: newNode.Next.Prev = newNode
InsBack(t) ==
  /\ Running
  /\ pc[t] = "ins_back"
  /\ Prev' = [Prev EXCEPT ![Next[newNode[t]]] = newNode[t]]
  /\ pc' = [pc EXCEPT ![t] = "ins_size"]
  /\ UNCHANGED <<Next, Key, Size, Mux, nalloc, op, node, key, newNode,
                 nodeToRemove, ret, err, hist>>

\* line 143: atomic.AddInt32(&ll.Size, 1)
InsSize(t) ==
  /\ Running
  /\ pc[t] = "ins_size"
  /\ Size' = Size + 1
  /\ pc' = [pc EXCEPT ![t] = "ins_ret"]
  /\ UNCHANGED <<Prev, Next, Key, Mux, nalloc, op, node, key, newNode,
                 nodeToRemove, ret, err, hist>>

\* line 145 and the deferred Unlock
InsRet(t) ==
  /\ Running
  /\ pc[t] = "ins_ret"
  /\ Mux' = NoThread
  /\ Return(t, newNode[t], FALSE)
  /\ UNCHANGED <<Prev, Next, Key, Size, nalloc>>

\* ------------------------------------------------------------ RemoveLast
RemoveLastCall(t) ==
  /\ Call(t, "RemoveLast", Nil, NoKey)
  /\ pc' = [pc EXCEPT ![t] = "rl_lock"]
  /\ UNCHANGED insLog

\* line 151; also reached from RemoveNode's call at line 176
RLLock(t) ==
  /\ Running
  /\ pc[t] = "rl_lock"
  /\ Acquire(t)
  /\ pc' = [pc EXCEPT ![t] = "rl_check"]
  /\ UNCHANGED <<Prev, Next, Key, Size, nalloc, op, node, key, newNode,
                 nodeToRemove, ret, err, hist>>

\* lines 154-156.  When the caller is RemoveNode (line 176) the error is
\* dropped and RemoveNode returns (returnNode, nil).
RLCheck(t) ==
  /\ Running
  /\ pc[t] = "rl_check"
  /\ IF Size = 0
     THEN /\ Mux' = NoThread
          /\ Return(t, Nil, op[t] = "RemoveLast")
          /\ UNCHANGED <<Prev, Next, Key, Size, nalloc>>
     ELSE /\ pc' = [pc EXCEPT ![t] = "rl_unlink"]
          /\ UNCHANGED <<list, op, node, key, newNode, nodeToRemove, ret, err,
                         hist>>

\* (mutant) nodeToRemove := ll.Head.Next, the most recently used element
RLUnlinkFirst(t) ==
  LET ntr == Next[headNode]
  IN  /\ Running
      /\ pc[t] = "rl_unlink"
      /\ IF ntr = Nil \/ Next[ntr] = Nil
         THEN Panic(t)
         ELSE /\ nodeToRemove' = [nodeToRemove EXCEPT ![t] = ntr]
              /\ Prev' = [Prev EXCEPT ![Next[ntr]] = headNode]
              /\ Next' = [Next EXCEPT ![headNode] = Next[ntr]]
              /\ pc' = [pc EXCEPT ![t] = "rl_size"]
              /\ UNCHANGED <<Key, Size, Mux, nalloc, op, node, key, newNode,
                             ret, err, hist>>

\* lines 158-161
RLUnlink(t) ==
  LET ntr == Prev[tailNode]
  IN  /\ Running
      /\ pc[t] = "rl_unlink"
      /\ IF ntr = Nil \/ Prev[ntr] = Nil
         THEN Panic(t)
         ELSE /\ nodeToRemove' = [nodeToRemove EXCEPT ![t] = ntr]
              /\ Next' = [Next EXCEPT ![Prev[ntr]] = tailNode]
              /\ Prev' = [Prev EXCEPT ![tailNode] = Prev[ntr]]
              /\ pc' = [pc EXCEPT ![t] = "rl_size"]
              /\ UNCHANGED <<Key, Size, Mux, nalloc, op, node, key, newNode,
                             ret, err, hist>>

\* (mutant) line 163 left out: Size is not decremented
RLSizeForgotten(t) ==
  /\ Running
  /\ pc[t] = "rl_size"
  /\ pc' = [pc EXCEPT ![t] = "rl_ret"]
  /\ UNCHANGED <<Prev, Next, Key, Size, Mux, nalloc, op, node, key, newNode,
                 nodeToRemove, ret, err, hist>>

\* line 163: atomic.AddInt32(&ll.Size, -1)
RLSize(t) ==
  /\ Running
  /\ pc[t] = "rl_size"
  /\ Size' = Size - 1
  /\ pc' = [pc EXCEPT ![t] = "rl_ret"]
  /\ UNCHANGED <<Prev, Next, Key, Mux, nalloc, op, node, key, newNode,
                 nodeToRemove, ret, err, hist>>

\* line 165 and the deferred Unlock (and line 177 for RemoveNode)
RLRet(t) ==
  /\ Running
  /\ pc[t] = "rl_ret"
  /\ Mux' = NoThread
  /\ Return(t, nodeToRemove[t], FALSE)
  /\ UNCHANGED <<Prev, Next, Key, Size, nalloc>>

\* ------------------------------------------------------------ RemoveNode
RemoveNodeCall(t, e) ==
  /\ Call(t, "RemoveNode", e, NoKey)
  /\ pc' = [pc EXCEPT ![t] = "rn_lock"]
  /\ UNCHANGED insLog

\* line 170
RNLock(t) ==
  /\ Running
  /\ pc[t] = "rn_lock"
  /\ Acquire(t)
  /\ pc' = [pc EXCEPT ![t] = "rn_check"]
  /\ UNCHANGED <<Prev, Next, Key, Size, nalloc, op, node, key, newNode,
                 nodeToRemove, ret, err, hist>>

\* lines 171-179: every branch unlocks
RNCheck(t) ==
  /\ Running
  /\ pc[t] = "rn_check"
  /\ Mux' = NoThread
  /\ UNCHANGED <<Prev, Next, Key, Size, nalloc>>
  /\ IF Size = 0
     THEN Return(t, Nil, TRUE)
     ELSE /\ pc' = [pc EXCEPT ![t] = IF Size = 1 THEN "rl_lock" ELSE "rn_lock2"]
          /\ UNCHANGED <<op, node, key, newNode, nodeToRemove, ret, err, hist>>

\* line 181
RNLock2(t) ==
  /\ Running
  /\ pc[t] = "rn_lock2"
  /\ Acquire(t)
  /\ pc' = [pc EXCEPT ![t] = "rn_unlink"]
  /\ UNCHANGED <<Prev, Next, Key, Size, nalloc, op, node, key, newNode,
                 nodeToRemove, ret, err, hist>>

\* (mutant) line 188, nextNode.Prev = node.Prev, left out
RNUnlinkForwardOnly(t) ==
  LET prevNode == Prev[node[t]]
      nextNode == Next[node[t]]
  IN  /\ Running
      /\ pc[t] = "rn_unlink"
      /\ IF node[t] = Nil \/ prevNode = Nil \/ nextNode = Nil
         THEN Panic(t)
         ELSE /\ Next' = [Next EXCEPT ![prevNode] = nextNode]
              /\ pc' = [pc EXCEPT ![t] = "rn_size"]
              /\ UNCHANGED <<Prev, Key, Size, Mux, nalloc, op, node, key,
                             newNode, nodeToRemove, ret, err, hist>>

\* lines 184-188
RNUnlink(t) ==
  LET prevNode == Prev[node[t]]
      nextNode == Next[node[t]]
  IN  /\ Running
      /\ pc[t] = "rn_unlink"
      /\ IF node[t] = Nil \/ prevNode = Nil \/ nextNode = Nil
         THEN Panic(t)
         ELSE /\ Next' = [Next EXCEPT ![prevNode] = nextNode]
              /\ Prev' = [Prev EXCEPT ![nextNode] = prevNode]
              /\ pc' = [pc EXCEPT ![t] = "rn_size"]
              /\ UNCHANGED <<Key, Size, Mux, nalloc, op, node, key, newNode,
                             nodeToRemove, ret, err, hist>>

\* (mutant) line 190 left out: Size is not decremented
RNSizeForgotten(t) ==
  /\ Running
  /\ pc[t] = "rn_size"
  /\ Size' = Size
  /\ pc' = [pc EXCEPT ![t] = "rn_ret"]
  /\ UNCHANGED <<Prev, Next, Key, Mux, nalloc, op, node, key, newNode,
                 nodeToRemove, ret, err, hist>>

\* line 190
RNSize(t) ==
  /\ Running
  /\ pc[t] = "rn_size"
  /\ Size' = Size - 1
  /\ pc' = [pc EXCEPT ![t] = "rn_ret"]
  /\ UNCHANGED <<Prev, Next, Key, Mux, nalloc, op, node, key, newNode,
                 nodeToRemove, ret, err, hist>>

\* line 192 and the deferred Unlock
RNRet(t) ==
  /\ Running
  /\ pc[t] = "rn_ret"
  /\ Mux' = NoThread
  /\ Return(t, node[t], FALSE)
  /\ UNCHANGED <<Prev, Next, Key, Size, nalloc>>

\* ----------------------------------------------------------- GetLastNode
GetLastNodeCall(t) ==
  /\ Call(t, "GetLastNode", Nil, NoKey)
  /\ pc' = [pc EXCEPT ![t] = "gl_lock"]
  /\ UNCHANGED insLog

\* line 197
GLLock(t) ==
  /\ Running
  /\ pc[t] = "gl_lock"
  /\ Acquire(t)
  /\ pc' = [pc EXCEPT ![t] = "gl_check"]
  /\ UNCHANGED <<Prev, Next, Key, Size, nalloc, op, node, key, newNode,
                 nodeToRemove, ret, err, hist>>

\* (mutant) the emptiness test is Size < 0
GLCheckNegative(t) ==
  /\ Running
  /\ pc[t] = "gl_check"
  /\ Mux' = NoThread
  /\ UNCHANGED <<Prev, Next, Key, Size, nalloc>>
  /\ IF Size < 0
     THEN Return(t, Nil, TRUE)
     ELSE /\ pc' = [pc EXCEPT ![t] = "gl_read"]
          /\ UNCHANGED <<op, node, key, newNode, nodeToRemove, ret, err, hist>>

\* lines 198-202: both branches unlock
GLCheck(t) ==
  /\ Running
  /\ pc[t] = "gl_check"
  /\ Mux' = NoThread
  /\ UNCHANGED <<Prev, Next, Key, Size, nalloc>>
  /\ IF Size = 0
     THEN Return(t, Nil, TRUE)
     ELSE /\ pc' = [pc EXCEPT ![t] = "gl_read"]
          /\ UNCHANGED <<op, node, key, newNode, nodeToRemove, ret, err, hist>>

\* (mutant) lines 204-205 reading Head.Next instead of Tail.Prev
GLReadFirst(t) ==
  /\ Running
  /\ pc[t] = "gl_read"
  /\ Return(t, Next[headNode], FALSE)
  /\ UNCHANGED list

\* lines 204-205: Tail.Prev is read without the lock.  The read races with
\* the writes of lines 140, 161 and 188; it yields the pointer stored when
\* it happens, which may be any value written since the check.
GLRead(t) ==
  /\ Running
  /\ pc[t] = "gl_read"
  /\ Return(t, Prev[tailNode], FALSE)
  /\ UNCHANGED list

\* --------------------------------------------------------- specifications
\* an element a caller can hold: Insert has returned it
Published(n) ==
  /\ n \in 1..nalloc
  /\ \A u \in Threads : ~(pc[u] \in InsertPcs /\ newNode[u] = n)

\* elements that satisfy RemoveNode's precondition right now
Removable == {n \in Linked : Published(n)}

\* The caller's index holds one element per key: Insert is called with a key
\* that no linked element and no Insert in progress carries.
\* The code stores a key and never looks at it, so of the keys never passed
\* before only the least is tried; a key passed before is passed again once
\* its element is unlinked (the cache's remove-then-reinsert).
NewKey == {k \in Keys \ Range(insLog) : \A j \in Keys \ Range(insLog) : k <= j}
FreshKeys ==
  (NewKey \cup Range(insLog)) \
    ({Key[n] : n \in Linked} \cup
     {key[u] : u \in {v \in Threads : pc[v] \in InsertPcs}})

\* keys for an Insert while fewer than m elements have been asked for
KeysUpTo(m) == IF nalloc + PendingInserts < m THEN FreshKeys ELSE {}

\* concurrent callers; RemoveNode is passed an element that is linked
NextStep ==
  \E t \in Threads :
    \/ \E k \in KeysUpTo(MaxRacing) : InsertCall(t, k)
    \/ RemoveLastCall(t)
    \/ \E e \in Removable : RemoveNodeCall(t, e)
    \/ GetLastNodeCall(t)
    \/ InsLock(t) \/ InsNew(t) \/ InsHead(t) \/ InsBack(t) \/ InsSize(t)
    \/ InsRet(t)
    \/ RLLock(t) \/ RLCheck(t) \/ RLUnlink(t) \/ RLSize(t) \/ RLRet(t)
    \/ RNLock(t) \/ RNCheck(t) \/ RNLock2(t) \/ RNUnlink(t) \/ RNSize(t)
    \/ RNRet(t)
    \/ GLLock(t) \/ GLCheck(t) \/ GLRead(t)

Spec == Init /\ [][NextStep]_vars

\* Scheduling: a goroutine that can run does run (weak fairness of its steps
\* outside Lock), and sync.Mutex hands the lock to a waiter that keeps
\* waiting (strong fairness of its Lock steps).  Callers need not call.
LockPcs == {"ins_lock", "rl_lock", "rn_lock", "rn_lock2", "gl_lock"}
LockStep(t) ==
  InsLock(t) \/ RLLock(t) \/ RNLock(t) \/ RNLock2(t) \/ GLLock(t)
BodyStep(t) ==
  \/ InsNew(t) \/ InsHead(t) \/ InsBack(t) \/ InsSize(t) \/ InsRet(t)
  \/ RLCheck(t) \/ RLUnlink(t) \/ RLSize(t) \/ RLRet(t)
  \/ RNCheck(t) \/ RNUnlink(t) \/ RNSize(t) \/ RNRet(t)
  \/ GLCheck(t) \/ GLRead(t)
Fairness ==
  \A t \in Threads : WF_vars(BodyStep(t)) /\ SF_vars(LockStep(t))

SpecFair == Init /\ [][NextStep]_vars /\ Fairness

\* concurrent Inserts with distinct keys and nothing else
NextIns ==
  \E t \in Threads :
    \/ \E k \in FreshKeys : InsertCall(t, k)
    \/ InsLock(t) \/ InsNew(t) \/ InsHead(t) \/ InsBack(t) \/ InsSize(t)
    \/ InsRet(t)

SpecIns == Init /\ [][NextIns]_vars

\* one caller: the calls run one after another.  On an empty list
\* RemoveNode may be handed any element the caller ever got, or nil.
Solo == CHOOSE t \in Threads : TRUE
SeqArgs == IF Chain = <<>> THEN (1..nalloc) \cup {Nil} ELSE Removable

NextSeq ==
  \/ \E k \in FreshKeys : InsertCall(Solo, k)
  \/ RemoveLastCall(Solo)
  \/ \E e \in SeqArgs : RemoveNodeCall(Solo, e)
  \/ GetLastNodeCall(Solo)
  \/ InsLock(Solo) \/ InsNew(Solo) \/ InsHead(Solo) \/ InsBack(Solo)
  \/ InsSize(Solo) \/ InsRet(Solo)
  \/ RLLock(Solo) \/ RLCheck(Solo) \/ RLUnlink(Solo) \/ RLSize(Solo)
  \/ RLRet(Solo)
  \/ RNLock(Solo) \/ RNCheck(Solo) \/ RNLock2(Solo) \/ RNUnlink(Solo)
  \/ RNSize(Solo) \/ RNRet(Solo)
  \/ GLLock(Solo) \/ GLCheck(Solo) \/ GLRead(Solo)

SpecSeq == Init /\ [][NextSeq]_vars

\* ================================================================ claims
Unlocked == Mux = NoThread
Quiescent == \A t \in Threads : AtRest(t)
Returned(t, o) == pc[t] = "done" /\ op[t] = o
KeysOf(c) == [i \in 1..Len(c) |-> Key[c[i]]]

\* C1: whenever no caller holds the list lock, Size is not negative and is
\* the number of real elements met from Head by following Next.
C1_SizeCountsChain ==
  Unlocked => (Size >= 0 /\ Size = Len(Chain))

\* C2: RemoveLast, RemoveNode and GetLastNode never return the Head or the
\* Tail sentinel.
C2_NoSentinelReturned ==
  \A t \in Threads :
    (pc[t] = "done" /\ op[t] \in {"RemoveLast", "RemoveNode", "GetLastNode"})
      => ret[t] \notin {headNode, tailNode}

\* a RemoveNode call that has checked Size and has not unlinked yet
CheckedNotUnlinked(t) ==
  /\ op[t] = "RemoveNode"
  /\ pc[t] \in {"rn_lock2", "rn_unlink", "rl_lock", "rl_check", "rl_unlink"}
\* a call between its first read of the list and its last write
Mutating(t) ==
  \/ pc[t] \in {"ins_new", "ins_head", "ins_back", "ins_size"}
  \/ pc[t] \in {"rl_check", "rl_unlink", "rl_size"}
  \/ pc[t] \in {"rn_check", "rn_unlink", "rn_size"}
  \/ CheckedNotUnlinked(t)

\* C3: Insert, RemoveLast and RemoveNode hold the list lock from their first
\* read of the list to their last write, and no other call takes a step
\* between a RemoveNode call's Size check and its unlinking.
C3_LockHeldThroughout ==
  /\ [](\A t \in Threads : Mutating(t) => Mux = t)
  /\ [][\A t \in Threads : CheckedNotUnlinked(t) =>
          \A u \in Threads \ {t} : AtRest(u) \/ pc'[u] = pc[u]]_vars

\* C4: whenever no caller holds the list lock the chain is well formed:
\* Head.Prev and Tail.Next are nil, Next leads from Head to Tail over exactly
\* Size real elements, n.Next.Prev = n for every node before Tail, and Prev
\* leads from Tail to Head over the same elements in reverse.
C4_ChainWellFormed ==
  Unlocked =>
    /\ Prev[headNode] = Nil
    /\ Next[tailNode] = Nil
    /\ ChainEnd = tailNode
    /\ Len(Chain) = Size
    /\ \A n \in Linked \cup {headNode} : Next[n] # Nil /\ Prev[Next[n]] = n
    /\ BackChainEnd = headNode
    /\ BackChain = Reverse(Chain)

\* C5: a RemoveNode(e) call that returns without error returns e, and e is
\* the element it unlinked (also on the path through RemoveLast).
C5_RemoveNodeReturnsItsElement ==
  \A t \in Threads :
    /\ (Returned(t, "RemoveNode") /\ ~err[t]) => ret[t] = node[t]
    /\ (op[t] = "RemoveNode" /\ pc[t] \in {"rl_size", "rl_ret"})
         => nodeToRemove[t] = node[t]

\* C6: the calls are linearizable: some order of the calls made so far, each
\* taking effect in one step between its call and its return, gives every
\* call the value it returned, and when no call is in progress the list is
\* in the state that order leaves.
C6_Linearizable ==
  /\ lin # {}
  /\ Quiescent => \E c \in lin : c.lst = Chain /\ Len(c.lst) = Size

\* C7: concurrent Inserts with distinct keys and no removals: once every call
\* has returned, Size is the number N of calls and the chain from Head to
\* Tail holds each inserted key exactly once.
C7_NoLostInsert ==
  Quiescent =>
    /\ Size = Len(insLog)
    /\ ChainEnd = tailNode
    /\ Len(Chain) = Len(insLog)
    /\ Range(KeysOf(Chain)) = Range(insLog)
    /\ \A i, j \in 1..Len(Chain) : i # j => Key[Chain[i]] # Key[Chain[j]]

\* MaxNodes Inserts by different callers have all returned, and they took
\* the lock in another order than they were called in
C7_Witness ==
  /\ Quiescent
  /\ Len(insLog) = MaxNodes
  /\ \A t \in Threads : Returned(t, "Insert")
  /\ KeysOf(Chain) # Reverse(insLog)

\* C8: after any sequence of Inserts with distinct keys on a fresh list, run
\* one after another, Size is the number of Inserts and the walk from Head
\* to Tail yields the keys in reverse insertion order.
C8_ReverseInsertionOrder ==
  (Quiescent /\ insertsOnly) =>
    /\ Size = Len(insLog)
    /\ ChainEnd = tailNode
    /\ KeysOf(Chain) = Reverse(insLog)

C8_Witness ==
  /\ Returned(Solo, "Insert")
  /\ insertsOnly
  /\ Len(insLog) = MaxNodes
  /\ KeysOf(Chain) = Reverse(insLog)

\* C9: RemoveLast on a list with at least one linked element returns the
\* element next to Tail, which is the one inserted longest ago among the
\* linked elements, unlinks it and decrements Size by exactly one.
C9_RemoveLastTakesOldest ==
  (Returned(Solo, "RemoveLast") /\ pre.chain # <<>>) =>
    /\ ~err[Solo]
    /\ ret[Solo] = pre.chain[Len(pre.chain)]
    /\ \A m \in Range(pre.chain) : ret[Solo] <= m
    /\ Chain = Front(pre.chain)
    /\ ChainEnd = tailNode
    /\ Prev[tailNode] = (IF Chain = <<>> THEN headNode ELSE Chain[Len(Chain)])
    /\ Size = pre.size - 1

\* RemoveLast has returned from a list of two or more elements out of whose
\* middle an element had been removed before
C9_Witness ==
  /\ Returned(Solo, "RemoveLast")
  /\ Len(pre.chain) >= 2
  /\ pre.chain[1] - pre.chain[Len(pre.chain)] >= Len(pre.chain)
  /\ ret[Solo] = pre.chain[Len(pre.chain)]

\* C10: after RemoveNode(e) has returned for a linked element e, the walk
\* from Head to Tail does not visit e, the former neighbours p and n of e
\* have p.Next = n and n.Prev = p, and Size has decreased by exactly one.
C10_RemoveNodeBypasses ==
  (Returned(Solo, "RemoveNode") /\ node[Solo] \in Range(pre.chain)) =>
    /\ node[Solo] \notin Linked
    /\ ChainEnd = tailNode
    /\ Next[pre.p] = pre.n
    /\ Prev[pre.n] = pre.p
    /\ Size = pre.size - 1

\* RemoveNode has returned for an element in the interior of a list of three
C10_Witness ==
  /\ Returned(Solo, "RemoveNode")
  /\ Len(pre.chain) >= 3
  /\ node[Solo] = pre.chain[2]
  /\ Chain = <<pre.chain[1]>> \o SubSeq(pre.chain, 3, Len(pre.chain))

\* C11: RemoveLast, RemoveNode and GetLastNode called on a list without real
\* elements (fresh, or emptied by removals) return the EmptyList error and no
\* element, and leave Size = 0, Head.Next = Tail and Tail.Prev = Head.
C11_EmptyListError ==
  \A o \in {"RemoveLast", "RemoveNode", "GetLastNode"} :
    (Returned(Solo, o) /\ pre.chain = <<>> /\ pre.size = 0) =>
      /\ err[Solo]
      /\ ret[Solo] = Nil
      /\ Size = 0
      /\ Next[headNode] = tailNode
      /\ Prev[tailNode] = headNode

\* RemoveNode has returned from a list that removals had emptied
C11_Witness ==
  /\ Returned(Solo, "RemoveNode")
  /\ pre.chain = <<>>
  /\ node[Solo] \in 1..nalloc
  /\ err[Solo]
  /\ Size = 0

\* C12: under fair scheduling every call of the four functions returns; a
\* caller that has returned does not hold the list lock; no caller waits for
\* the lock while it holds it; and the callers are never all blocked.
C12_EveryCallReturns ==
  /\ \A t \in Threads : (~AtRest(t)) ~> AtRest(t)
  /\ [](\A t \in Threads : AtRest(t) => Mux # t)
  /\ [](\A t \in Threads : pc[t] \in LockPcs => Mux # t)
  /\ []((\A t \in Threads : pc[t] \in LockPcs) => Mux = NoThread)

\* C13: InitList, Insert("a"), Insert("b") run one after another; then
\* GetLastNode returns the element with key "a"; RemoveLast returns "a" and
\* leaves Size = 1; RemoveNode of the element returned for "b" returns "b"
\* and leaves Size = 0; GetLastNode then fails with EmptyList.
C13_Scenario ==
  /\ (script = 3 /\ Returned(Solo, "GetLastNode")) =>
        (~err[Solo] /\ ret[Solo] \in Real /\ Key[ret[Solo]] = insLog[1])
  /\ (script = 4 /\ Returned(Solo, "RemoveLast")) =>
        /\ ~err[Solo] /\ ret[Solo] \in Real /\ Key[ret[Solo]] = insLog[1]
        /\ Size = 1
  /\ (script = 5 /\ Returned(Solo, "RemoveNode")) =>
        /\ ~err[Solo] /\ ret[Solo] \in Real /\ Key[ret[Solo]] = insLog[2]
        /\ ret[Solo] = node[Solo]
        /\ Size = 0
  /\ (script = 6 /\ Returned(Solo, "GetLastNode")) =>
        (err[Solo] /\ ret[Solo] = Nil)

\* the whole scenario has run
C13_Witness ==
  /\ script = Len(Scenario)
  /\ Returned(Solo, "GetLastNode")
  /\ err[Solo]
  /\ Len(insLog) = 2

\* C14: on a list without real elements, Insert immediately followed by
\* GetLastNode: GetLastNode returns the element Insert returned, and that
\* element is both Head.Next and Tail.Prev.
C14_InsertThenGetLast ==
  (/\ Returned(Solo, "GetLastNode")
   /\ prior.op = "Insert" /\ prior.chain = <<>> /\ prior.size = 0) =>
    /\ ~err[Solo]
    /\ prior.ret \in Real
    /\ ret[Solo] = prior.ret
    /\ Next[headNode] = prior.ret
    /\ Prev[tailNode] = prior.ret

\* the list had been emptied by a removal before the Insert
C14_Witness ==
  /\ Returned(Solo, "GetLastNode")
  /\ prior.op = "Insert" /\ prior.chain = <<>>
  /\ nalloc >= 2
  /\ ret[Solo] = nalloc

\* C15: under any interleaving in which every RemoveNode is passed an element
\* linked when the call began, no element is returned by a removal
\* (RemoveLast or RemoveNode) more than once.
C15_RemovedAtMostOnce == ~twice

\* C16: under any interleaving in which every RemoveNode is passed an element
\* linked when the call began, an element that RemoveLast or RemoveNode has
\* returned is, in every later state, reachable neither from Head by Next
\* nor from Tail by Prev, and GetLastNode never returns it.
C16_UnlinkedForGood ==
  /\ \A n \in removed : n \notin Linked /\ n \notin Range(BackChain)
  /\ ~stale

\* C17: RemoveNode never returns a nil element together with a nil error: a
\* RemoveNode that removes nothing reports the EmptyList error, also when
\* the list was emptied by another caller after it observed Size = 1.
C17_NilElementHasError ==
  \A t \in Threads :
    (Returned(t, "RemoveNode") /\ ret[t] = Nil) => err[t]

\* C18: one caller, RemoveNode(e) of a linked element e immediately followed
\* by Insert with e's key: Size is what it was before the RemoveNode, the
\* new element is Head.Next and carries e's key, and the other elements
\* follow it in the order they had, forwards and backwards, so RemoveLast
\* (which takes Tail.Prev) goes on evicting them oldest first.
C18_RecencyRefresh ==
  (/\ Returned(Solo, "Insert")
   /\ prior.op = "RemoveNode"
   /\ prior.node \in Range(prior.chain)
   /\ key[Solo] = Key[prior.node]) =>
    /\ Size = prior.size
    /\ ~err[Solo]
    /\ ret[Solo] \in Real \ Range(prior.chain)
    /\ Key[ret[Solo]] = Key[prior.node]
    /\ Next[headNode] = ret[Solo]
    /\ Chain = <<ret[Solo]>> \o RemoveFrom(prior.chain, prior.node)
    /\ BackChain = Reverse(Chain)

\* the element refreshed stood between two others
C18_Witness ==
  /\ Returned(Solo, "Insert")
  /\ prior.op = "RemoveNode"
  /\ Len(prior.chain) = 3
  /\ prior.node = prior.chain[2]
  /\ key[Solo] = Key[prior.node]
  /\ Len(Chain) = 3

\* C19: GetLastNode is read-only.  With one caller, no step of a GetLastNode
\* call, successful or failing with EmptyList, changes Size or any Prev or
\* Next link; it fails exactly when Size was 0; when it succeeds it returns
\* Tail.Prev, and a RemoveLast called right after it returns that element.
C19_GetLastNodeReadOnly ==
  /\ [][op'[Solo] = "GetLastNode" => UNCHANGED <<Prev, Next, Size>>]_vars
  /\ [](Returned(Solo, "GetLastNode") =>
          /\ err[Solo] <=> pre.size = 0
          /\ err[Solo] => ret[Solo] = Nil
          /\ ~err[Solo] => (ret[Solo] \in Real /\ ret[Solo] = Prev[tailNode]))
  /\ []((/\ Returned(Solo, "RemoveLast")
         /\ prior.op = "GetLastNode" /\ ~prior.err) =>
          (~err[Solo] /\ ret[Solo] = prior.ret))

\* GetLastNode peeked at a list of several elements, RemoveLast followed
C19_Witness ==
  /\ Returned(Solo, "RemoveLast")
  /\ prior.op = "GetLastNode" /\ ~prior.err
  /\ prior.size >= 2
  /\ ret[Solo] = prior.ret
====
